---- MODULE Spec2Model ----
(***************************************************************************)
(* A model of the JavaScript AST builder: the Lexer (Tokenize), the        *)
(* recursive-descent Parser (Parse) and the main pipeline that runs one    *)
(* after the other.  Text is a sequence of one-character strings, a Token  *)
(* is a record [Type, Value] whose Value is such a sequence, and an AST    *)
(* node is a record tagged by its type field.  Positions are 0-based as in *)
(* the Go source.                                                          *)
(***************************************************************************)
EXTENDS Integers, Sequences, FiniteSets, TLC

VARIABLES
    pending,   \* source texts still to be processed, one run of main each
    results,   \* outcome of every finished run, in order
    phase,     \* where main is: idle, tokenize, tokenized, parse, parsed, panic
    l,         \* the Lexer: [input, pos, tokens]
    p,         \* the Parser: [tokens, pos]
    stack,     \* the parser's active block loops, innermost last
    program,   \* the Program returned by Parse
    calls      \* number of Tokenize calls made on the current Lexer

vars == <<pending, results, phase, l, p, stack, program, calls>>

----------------------------------------------------------------------------
(* Bounds of the model *)

\* how far past the end of the token sequence the parser cursor may run
MaxOverrun == 3

\* how many times Tokenize is called on one Lexer
MaxCalls == 2

\* length of the source texts drawn character by character
MaxLen == 3

\* length of the token sequences handed directly to the parser
MaxTokens == 4

\* number of statements in a generated statement sequence
MaxStmts == 2

\* number of items (blanks, comment lines) in a comment-only text
MaxItems == 3

\* number of operands beyond two in a chained expression
MaxExtra == 2

\* number of parameters of a generated function declaration
MaxParams == 2

----------------------------------------------------------------------------
(* Text helpers: Go strings are 0-based byte sequences *)

CharAt(s, i) == s[i + 1]

\* Go's s[a:b]
Slice(s, a, b) == SubSeq(s, a + 1, b)

Lower == {"a", "b", "c", "d", "e", "f", "g", "h", "i", "j", "k", "l", "m",
          "n", "o", "p", "q", "r", "s", "t", "u", "v", "w", "x", "y", "z"}

Upper == {"A", "B", "C", "D", "E", "F", "G", "H", "I", "J", "K", "L", "M",
          "N", "O", "P", "Q", "R", "S", "T", "U", "V", "W", "X", "Y", "Z"}

Digits == {"0", "1", "2", "3", "4", "5", "6", "7", "8", "9"}

\* unicode.IsSpace on a byte: the space characters that can be written here
\* (the vertical tab, U+0085 and U+00A0 are space characters as well)
SpaceChars == {" ", "\t", "\n", "\r", "\f"}

IsSpace(c) == c \in SpaceChars

isAlpha(c) == c \in Lower \/ c \in Upper \/ c = "_"

isDigit(c) == c \in Digits

DQ == "\""

SQ == "'"


----------------------------------------------------------------------------
(* Lexer *)

Token(type, value) == [Type |-> type, Value |-> value]

EOFToken == Token("EOF", <<>>)

\* NewLexer that carries the token buffer of the Lexer before it
NewLexer_Reuse(input) == [input |-> input, pos |-> 0, tokens |-> l.tokens]

NewLexer(input) == [input |-> input, pos |-> 0, tokens |-> <<>>]

\* for l.pos < len(l.input) && l.input[l.pos] is in set { l.pos++ }
RECURSIVE ScanWhile(_, _, _)
ScanWhile(s, i, set) ==
    IF i < Len(s) /\ CharAt(s, i) \in set THEN ScanWhile(s, i + 1, set) ELSE i

\* for l.pos < len(l.input) && l.input[l.pos] != stop { l.pos++ }
RECURSIVE ScanUntil(_, _, _)
ScanUntil(s, i, stop) ==
    IF i < Len(s) /\ CharAt(s, i) # stop THEN ScanUntil(s, i + 1, stop) ELSE i

Keywords ==
    [function |-> <<"f", "u", "n", "c", "t", "i", "o", "n">>,
     return   |-> <<"r", "e", "t", "u", "r", "n">>,
     const    |-> <<"c", "o", "n", "s", "t">>,
     let      |-> <<"l", "e", "t">>,
     var      |-> <<"v", "a", "r">>,
     if       |-> <<"i", "f">>]

\* a keyword switch that also takes the capitalised spelling If
KeywordType_CapitalIf(value) ==
    CASE value = Keywords.function -> "FUNCTION"
      [] value = Keywords.return   -> "RETURN"
      [] value = Keywords.const    -> "CONST"
      [] value = Keywords.let      -> "LET"
      [] value = Keywords.var      -> "VAR"
      [] value = Keywords.if       -> "IF"
      [] value = <<"I", "f">>      -> "IF"
      [] OTHER                     -> "IDENTIFIER"

\* the switch on the scanned identifier text
KeywordType(value) ==
    CASE value = Keywords.function -> "FUNCTION"
      [] value = Keywords.return   -> "RETURN"
      [] value = Keywords.const    -> "CONST"
      [] value = Keywords.let      -> "LET"
      [] value = Keywords.var      -> "VAR"
      [] value = Keywords.if       -> "IF"
      [] OTHER                     -> "IDENTIFIER"

\* the characters the switch of Tokenize has a case for
PunctChars == {"(", ")", "{", "}", ";", ",", "=", ">", "<", "+", "-", "*", "/", "%"}

Emit(lx, type, value) == [lx EXCEPT !.tokens = Append(@, Token(type, value))]

\* the loop without its trailing l.pos++
Advance_None(lx, n) == lx

Advance(lx, n) == [lx EXCEPT !.pos = @ + n]

\* the lookahead with a bounds test that also rejects the last character
NextIs_OffByOne(lx, c) ==
    lx.pos + 2 < Len(lx.input) /\ CharAt(lx.input, lx.pos + 1) = c

\* the next character is '=' (one character of lookahead)
NextIs(lx, c) == lx.pos + 1 < Len(lx.input) /\ CharAt(lx.input, lx.pos + 1) = c

Scanning == phase = "tokenize" /\ l.pos < Len(l.input)

char == CharAt(l.input, l.pos)

\* a comment test that does not look at the next character
IsCommentStart_AnySlash == char = "/"

IsCommentStart == char = "/" /\ NextIs(l, "/")

\* main: lexer := NewLexer(content)
CreateLexer ==
    /\ phase = "idle"
    /\ pending # <<>>
    /\ l' = NewLexer(Head(pending))
    /\ pending' = Tail(pending)
    /\ phase' = "lexer"
    /\ calls' = 0
    /\ UNCHANGED <<results, p, stack, program>>

\* a call of l.Tokenize(): the first one, or a further one on the same Lexer
CallTokenize ==
    /\ phase \in {"lexer", "tokenized"}
    /\ calls < MaxCalls
    /\ phase' = "tokenize"
    /\ calls' = calls + 1
    /\ UNCHANGED <<pending, results, l, p, stack, program>>

LexRest == UNCHANGED <<pending, results, phase, p, stack, program, calls>>

\* whitespace is skipped
LexSpace ==
    /\ Scanning
    /\ IsSpace(char)
    /\ l' = Advance(l, 1)
    /\ LexRest

\* a single-line comment runs to the end of the line
LexComment ==
    /\ Scanning
    /\ ~IsSpace(char)
    /\ IsCommentStart
    /\ LET start == l.pos
           end   == ScanUntil(l.input, l.pos, "\n")
       IN  l' = [Emit(l, "COMMENT", Slice(l.input, start, end)) EXCEPT !.pos = end]
    /\ LexRest

\* identifiers and keywords
LexIdentifier ==
    /\ Scanning
    /\ ~IsSpace(char)
    /\ ~IsCommentStart
    /\ isAlpha(char)
    /\ LET start == l.pos
           end   == ScanWhile(l.input, l.pos, Lower \cup Upper \cup {"_"} \cup Digits)
           value == Slice(l.input, start, end)
       IN  l' = [Emit(l, KeywordType(value), value) EXCEPT !.pos = end]
    /\ LexRest

\* a string scan that stops at the closing quote without stepping over it
StringEnd_NoClose(s, start, quote) == ScanUntil(s, start + 1, quote)

\* position after the string scan: past the closing quote, or one past the
\* end of the input when the closing quote is missing
StringEnd(s, start, quote) == ScanUntil(s, start + 1, quote) + 1

\* string literals; l.input[start:l.pos] faults when l.pos > len(l.input)
LexString ==
    /\ Scanning
    /\ ~IsSpace(char)
    /\ ~IsCommentStart
    /\ ~isAlpha(char)
    /\ char \in {DQ, SQ}
    /\ LET start == l.pos
           end   == StringEnd(l.input, start, char)
       IN  IF end > Len(l.input)
           THEN /\ l' = [l EXCEPT !.pos = end]
                /\ phase' = "panic"
           ELSE /\ l' = [Emit(l, "STRING", Slice(l.input, start, end)) EXCEPT !.pos = end]
                /\ UNCHANGED phase
    /\ UNCHANGED <<pending, results, p, stack, program, calls>>

\* the token of a punctuation character, with its lookahead
PunctToken(lx, c) ==
    CASE c = "(" -> Token("LEFT_PAREN", <<"(">>)
      [] c = ")" -> Token("RIGHT_PAREN", <<")">>)
      [] c = "{" -> Token("LEFT_BRACE", <<"{">>)
      [] c = "}" -> Token("RIGHT_BRACE", <<"}">>)
      [] c = ";" -> Token("SEMICOLON", <<";">>)
      [] c = "," -> Token("COMMA", <<",">>)
      [] c = "=" -> IF NextIs(lx, "=") THEN Token("EQUALITY", <<"=", "=">>)
                                       ELSE Token("EQUALS", <<"=">>)
      [] c = ">" -> IF NextIs(lx, "=") THEN Token("GREATER_EQUAL", <<">", "=">>)
                                       ELSE Token("GREATER_THAN", <<">">>)
      [] c = "<" -> IF NextIs(lx, "=") THEN Token("LESS_EQUAL", <<"<", "=">>)
                                       ELSE Token("LESS_THAN", <<"<">>)
      [] c = "+" -> Token("PLUS", <<"+">>)
      [] c = "-" -> Token("MINUS", <<"-">>)
      [] c = "*" -> Token("MULTIPLY", <<"*">>)
      [] c = "/" -> Token("DIVIDE", <<"/">>)
      [] c = "%" -> Token("MODULO", <<"%">>)

\* the switch without the l.pos++ that skips the second character of a
\* two-character operator
LexPunct_OneStep ==
    /\ Scanning
    /\ ~IsSpace(char)
    /\ ~IsCommentStart
    /\ ~isAlpha(char)
    /\ char \notin {DQ, SQ}
    /\ char \in PunctChars
    /\ l' = Advance(Emit(l, PunctToken(l, char).Type, PunctToken(l, char).Value), 1)
    /\ LexRest

\* the switch over special characters; a two-character operator skips its
\* second character, and the loop's trailing l.pos++ skips the first.  The
\* switch's own test for "//" is never true here: the comment scan above has
\* already taken every '/' that is followed by '/'.
LexPunct ==
    /\ Scanning
    /\ ~IsSpace(char)
    /\ ~IsCommentStart
    /\ ~isAlpha(char)
    /\ char \notin {DQ, SQ}
    /\ char \in PunctChars
    /\ LET tok == PunctToken(l, char)
       IN  l' = Advance(Emit(l, tok.Type, tok.Value), Len(tok.Value))
    /\ LexRest

\* position after a numeric scan: digits, then optionally '.' and digits
NumberEnd(s, start) ==
    LET intEnd == ScanWhile(s, start, Digits)
    IN  IF intEnd < Len(s) /\ CharAt(s, intEnd) = "."
        THEN ScanWhile(s, intEnd + 1, Digits)
        ELSE intEnd

\* numeric literals
LexNumber ==
    /\ Scanning
    /\ ~IsSpace(char)
    /\ ~IsCommentStart
    /\ ~isAlpha(char)
    /\ char \notin {DQ, SQ}
    /\ char \notin PunctChars
    /\ isDigit(char)
    /\ LET start == l.pos
           end   == NumberEnd(l.input, start)
       IN  l' = [Emit(l, "NUMBER", Slice(l.input, start, end)) EXCEPT !.pos = end]
    /\ LexRest

\* any other character is skipped
LexUnknown ==
    /\ Scanning
    /\ ~IsSpace(char)
    /\ ~IsCommentStart
    /\ ~isAlpha(char)
    /\ char \notin {DQ, SQ}
    /\ char \notin PunctChars
    /\ ~isDigit(char)
    /\ l' = Advance(l, 1)
    /\ LexRest

\* Tokenize that returns without appending the EOF token
AppendEOF_Missing(lx) == lx

\* the lexer after the main loop: the EOF token is appended
AppendEOF(lx) == Emit(lx, "EOF", <<>>)

\* end of input: Tokenize appends EOF and returns l.tokens
LexEOF ==
    /\ phase = "tokenize"
    /\ l.pos >= Len(l.input)
    /\ l' = AppendEOF(l)
    /\ phase' = "tokenized"
    /\ UNCHANGED <<pending, results, p, stack, program, calls>>


----------------------------------------------------------------------------
(* AST nodes *)

\* an absent node (a nil Node)
Nil == [type |-> "nil"]

Program(body) == [type |-> "Program", Body |-> body]

FunctionDeclaration(name, params, body) ==
    [type |-> "FunctionDeclaration", Name |-> name, Params |-> params, Body |-> body]

Parameter(name, defaultValue) == [Name |-> name, DefaultValue |-> defaultValue]

ReturnStatement(argument) == [type |-> "ReturnStatement", Argument |-> argument]

Identifier(name) == [type |-> "Identifier", Name |-> name]

StringLiteral(value) == [type |-> "StringLiteral", Value |-> value]

VariableDeclaration(kind, name, value) ==
    [type |-> "VariableDeclaration", Kind |-> kind, Name |-> name, Value |-> value]

Comment(text) == [type |-> "Comment", Text |-> text]

IfStatement(test, consequent) ==
    [type |-> "IfStatement", Test |-> test, Consequent |-> consequent]

BinaryExpression(left, operator, right) ==
    [type |-> "BinaryExpression", Left |-> left, Operator |-> operator, Right |-> right]

NumericLiteral(value) == [type |-> "NumericLiteral", Value |-> value]

----------------------------------------------------------------------------
(* Parser *)

\* fault records that a read of p.tokens fell outside its bounds (a run-time
\* panic of the Go program); advances counts the executions of p.pos++
NewParser(tokens) == [tokens |-> tokens, pos |-> 0, fault |-> FALSE, advances |-> 0]

\* the guard of current() written with > instead of >=
PastEnd_OffByOne(ps) == ps.pos > Len(ps.tokens)

\* the guard of current(): the cursor is at or past the end
PastEnd(ps) == ps.pos >= Len(ps.tokens)

\* p.tokens[p.pos] is evaluated with an index outside 0..len-1
IndexFault(ps) == ~PastEnd(ps) /\ ~(0 <= ps.pos /\ ps.pos < Len(ps.tokens))

current(ps) ==
    IF PastEnd(ps) THEN EOFToken
    ELSE IF IndexFault(ps) THEN Token("PANIC", <<>>)
    ELSE ps.tokens[ps.pos + 1]

\* a next() that jumps over a token
next_Jump(ps) == [ps EXCEPT !.pos = @ + 2, !.advances = @ + 1]

\* next() advances and reads the token it lands on
next(ps) ==
    LET moved == [ps EXCEPT !.pos = @ + 1, !.advances = @ + 1]
    IN  [moved EXCEPT !.fault = @ \/ IndexFault(moved)]

\* the operator test without the arithmetic operator %
isBinaryOperator_NoModulo(tokenType) ==
    tokenType \in {"EQUALITY", "EQUALS", "PLUS", "MINUS", "MULTIPLY", "DIVIDE",
                   "GREATER_THAN", "LESS_THAN", "GREATER_EQUAL", "LESS_EQUAL"}

isBinaryOperator(tokenType) ==
    tokenType \in {"EQUALITY", "EQUALS", "PLUS", "MINUS", "MULTIPLY", "DIVIDE",
                   "MODULO", "GREATER_THAN", "LESS_THAN", "GREATER_EQUAL",
                   "LESS_EQUAL"}

\* strings.Trim(s, cutset): drop every leading and trailing character that
\* is in cutset
RECURSIVE TrimLeft(_, _)
TrimLeft(s, cutset) ==
    IF s # <<>> /\ Head(s) \in cutset THEN TrimLeft(Tail(s), cutset) ELSE s

RECURSIVE TrimRight(_, _)
TrimRight(s, cutset) ==
    IF s # <<>> /\ s[Len(s)] \in cutset
    THEN TrimRight(SubSeq(s, 1, Len(s) - 1), cutset)
    ELSE s

Trim(s, cutset) == TrimRight(TrimLeft(s, cutset), cutset)

\* the value parsePrimary gives a StringLiteral
cleanValue(rawValue) == Trim(rawValue, {DQ, SQ})

\* the leaf node of a token at a primary position; nil for any other token
primaryNode(token) ==
    CASE token.Type = "IDENTIFIER" -> Identifier(token.Value)
      [] token.Type = "NUMBER" -> NumericLiteral(token.Value)
      [] token.Type = "STRING" -> StringLiteral(cleanValue(token.Value))
      [] OTHER -> Nil

\* a parsePrimary that leaves a token it cannot use where it is
parsePrimary_KeepOther(ps) ==
    [node |-> primaryNode(current(ps)),
     ps   |-> IF primaryNode(current(ps)) = Nil THEN ps ELSE next(ps)]

\* each production returns the node it built and the parser after it;
\* parsePrimary consumes its token whatever it is
parsePrimary(ps) == [node |-> primaryNode(current(ps)), ps |-> next(ps)]

\* a BinaryExpression with its operands exchanged
binaryOf_Swapped(leftNode, operator, right) ==
    [node |-> BinaryExpression(right.node, operator, leftNode), ps |-> right.ps]

\* return &BinaryExpression{Left: left, Operator: operator, Right: right}
binaryOf(leftNode, operator, right) ==
    [node |-> BinaryExpression(leftNode, operator, right.node), ps |-> right.ps]

\* an expression parser that keeps combining while an operator follows
RECURSIVE chainAfter(_)
chainAfter(left) ==
    IF current(left.ps).Type \in {"EQUALITY", "EQUALS", "PLUS", "MINUS", "MULTIPLY",
                                  "DIVIDE", "MODULO", "GREATER_THAN", "LESS_THAN",
                                  "GREATER_EQUAL", "LESS_EQUAL"}
    THEN chainAfter(binaryOf(left.node, current(left.ps).Value,
                             parsePrimary(next(left.ps))))
    ELSE left

\* parseExpression once the left operand is parsed: one operator and one
\* more primary, or the left operand alone
expressionAfter(left) ==
    IF isBinaryOperator(current(left.ps).Type)
    THEN binaryOf(left.node, current(left.ps).Value, parsePrimary(next(left.ps)))
    ELSE left

parseExpression_Chained(ps) == chainAfter(parsePrimary(ps))

parseExpression(ps) == expressionAfter(parsePrimary(ps))

\* if p.current().Type == kind { p.next() }
skipIf(ps, kind) == IF current(ps).Type = kind THEN next(ps) ELSE ps

\* a Comment whose Text drops the leading //
parseComment_NoSlashes(ps) ==
    [node |-> Comment(SubSeq(current(ps).Value, 3, Len(current(ps).Value))),
     ps   |-> next(ps)]

parseComment(ps) == [node |-> Comment(current(ps).Value), ps |-> next(ps)]

\* the argument of a return parsed before everything but a semicolon
returnArgument_NoEOF(ps) ==
    IF current(ps).Type # "SEMICOLON"
    THEN parseExpression(ps)
    ELSE [node |-> Nil, ps |-> ps]

\* the argument of a return: absent before a semicolon and before EOF
returnArgument(ps) ==
    IF current(ps).Type # "SEMICOLON" /\ current(ps).Type # "EOF"
    THEN parseExpression(ps)
    ELSE [node |-> Nil, ps |-> ps]

\* return &ReturnStatement{Argument: argument}, after the optional semicolon
returnOf(argument) ==
    [node |-> ReturnStatement(argument.node), ps |-> skipIf(argument.ps, "SEMICOLON")]

parseReturnStatement(ps) == returnOf(returnArgument(next(ps)))

\* return &VariableDeclaration{...}, after the optional semicolon
declarationOf(kind, name, value) ==
    [node |-> VariableDeclaration(kind, name, value.node),
     ps   |-> skipIf(value.ps, "SEMICOLON")]

\* kind and name are the literals of the first two tokens, whatever they are
parseVariableDeclaration(ps) ==
    declarationOf(current(ps).Value, current(next(ps)).Value,
                  parseExpression(skipIf(next(next(ps)), "EQUALS")))

\* the default value of a parameter: absent without an equals sign
defaultValue(ps) ==
    IF current(ps).Type = "EQUALS"
    THEN parseExpression(next(ps))
    ELSE [node |-> Nil, ps |-> ps]

\* params = append(params, Parameter{...}), after the optional comma
parameterOf(paramName, def) ==
    [param |-> Parameter(paramName, def.node), ps |-> skipIf(def.ps, "COMMA")]

\* one parameter: its name, an optional default value, an optional comma
parseParameter(ps) == parameterOf(current(ps).Value, defaultValue(next(ps)))

\* the parameter loop of parseFunctionDeclaration: tokens that are not
\* identifiers are skipped
RECURSIVE paramLoop(_, _)
RECURSIVE addParameter(_, _)
paramLoop(ps, params) ==
    IF current(ps).Type # "RIGHT_PAREN" /\ current(ps).Type # "EOF"
    THEN IF current(ps).Type = "IDENTIFIER"
         THEN addParameter(parseParameter(ps), params)
         ELSE paramLoop(next(ps), params)
    ELSE [params |-> params, ps |-> ps]

\* the new parameter put in front of the list instead of at its end
addParameter_Prepend(r, params) == paramLoop(r.ps, <<r.param>> \o params)

addParameter(r, params) == paramLoop(r.ps, Append(params, r.param))

\* the parameter list, if there is a '(': the loop, then the optional ')'
closeList(r) == [params |-> r.params, ps |-> skipIf(r.ps, "RIGHT_PAREN")]

parameterList(ps) ==
    IF current(ps).Type = "LEFT_PAREN"
    THEN closeList(paramLoop(next(ps), <<>>))
    ELSE [params |-> <<>>, ps |-> ps]

headerOf(name, list) == [name |-> name, params |-> list.params, ps |-> list.ps]

\* parseFunctionDeclaration up to the body: keyword, name, parameter list
functionHeader(ps) == headerOf(current(next(ps)).Value, parameterList(next(next(ps))))

\* the test kept, its closing parenthesis left in place
testOf_KeepParen(t) == [test |-> t.node, ps |-> t.ps]

testOf(t) == [test |-> t.node, ps |-> skipIf(t.ps, "RIGHT_PAREN")]

\* parseIfStatement up to the consequent block: keyword, parenthesized test
ifHeader(ps) ==
    IF current(next(ps)).Type = "LEFT_PAREN"
    THEN testOf(parseExpression(next(next(ps))))
    ELSE [test |-> Nil, ps |-> next(ps)]

\* an active statement loop: the loop of Parse, of a function body or of an
\* if block, with what its production has collected so far
Frame(kind, name, params, test) ==
    [kind |-> kind, name |-> name, params |-> params, test |-> test, body |-> <<>>]

ProgramFrame == Frame("Program", <<>>, <<>>, Nil)

top == stack[Len(stack)]

\* the condition of the innermost statement loop
loopCondition(frame, ps) ==
    CASE frame.kind = "Program" -> current(ps).Type # "EOF"
      [] frame.kind = "FunctionDeclaration" -> current(ps).Type # "RIGHT_BRACE"
      [] frame.kind = "IfStatement" ->
            current(ps).Type # "RIGHT_BRACE" /\ current(ps).Type # "EOF"

\* the node appended without the test for nil
appendNode_Always(stk, node) == [stk EXCEPT ![Len(stk)].body = Append(@, node)]

\* if node != nil { body = append(body, node) }
appendNode(stk, node) ==
    IF node # Nil
    THEN [stk EXCEPT ![Len(stk)].body = Append(@, node)]
    ELSE stk

pop(stk) == SubSeq(stk, 1, Len(stk) - 1)

\* the innermost loop runs parseStatement on a token of one of these kinds
InStatement(types) ==
    /\ phase = "parse"
    /\ loopCondition(top, p)
    /\ current(p).Type \in types

ParseRest == UNCHANGED <<pending, results, phase, l, program, calls>>

StatementStarts == {"COMMENT", "FUNCTION", "RETURN", "CONST", "LET", "VAR", "IF"}

\* main: parser := NewParser(tokens); Parse starts with an empty Program
StartParse ==
    /\ phase = "tokenized"
    /\ p' = NewParser(l.tokens)
    /\ stack' = <<ProgramFrame>>
    /\ phase' = "parse"
    /\ UNCHANGED <<pending, results, l, program, calls>>

\* the statement's node, if any, joins the innermost loop's list
produce(r) ==
    /\ p' = r.ps
    /\ stack' = appendNode(stack, r.node)

ParseCommentStatement ==
    /\ InStatement({"COMMENT"})
    /\ produce(parseComment(p))
    /\ ParseRest

ParseReturnStatement ==
    /\ InStatement({"RETURN"})
    /\ produce(parseReturnStatement(p))
    /\ ParseRest

ParseVariableDeclaration ==
    /\ InStatement({"CONST", "LET", "VAR"})
    /\ produce(parseVariableDeclaration(p))
    /\ ParseRest

\* after the header of a function: with a '{' its body loop becomes the
\* innermost loop, without one the declaration is complete with an empty body
enterFunction(h) ==
    IF current(h.ps).Type = "LEFT_BRACE"
    THEN /\ p' = next(h.ps)
         /\ stack' = Append(stack, Frame("FunctionDeclaration", h.name, h.params, Nil))
    ELSE /\ p' = h.ps
         /\ stack' = appendNode(stack, FunctionDeclaration(h.name, h.params, <<>>))

ParseFunctionDeclaration ==
    /\ InStatement({"FUNCTION"})
    /\ enterFunction(functionHeader(p))
    /\ ParseRest

\* after the header of an if: the same for its consequent block
enterIf(h) ==
    IF current(h.ps).Type = "LEFT_BRACE"
    THEN /\ p' = next(h.ps)
         /\ stack' = Append(stack, Frame("IfStatement", <<>>, <<>>, h.test))
    ELSE /\ p' = h.ps
         /\ stack' = appendNode(stack, IfStatement(h.test, <<>>))

ParseIfStatement ==
    /\ InStatement({"IF"})
    /\ enterIf(ifHeader(p))
    /\ ParseRest

\* a default case that keeps identifiers and literals as statements
SkipToken_AsStatement ==
    /\ phase = "parse"
    /\ loopCondition(top, p)
    /\ current(p).Type \notin StatementStarts
    /\ p.pos < Len(p.tokens) + MaxOverrun
    /\ produce(parsePrimary(p))
    /\ ParseRest

\* a lone semicolon and every token that starts no statement are skipped
SkipToken ==
    /\ phase = "parse"
    /\ loopCondition(top, p)
    /\ current(p).Type \notin StatementStarts
    /\ p.pos < Len(p.tokens) + MaxOverrun
    /\ produce([node |-> Nil, ps |-> next(p)])
    /\ ParseRest

\* the body loop of a function ends: the '}' is skipped, the declaration is
\* returned to the enclosing loop
EndFunctionBody ==
    /\ phase = "parse"
    /\ top.kind = "FunctionDeclaration"
    /\ ~loopCondition(top, p)
    /\ p' = next(p)
    /\ stack' = appendNode(pop(stack), FunctionDeclaration(top.name, top.params, top.body))
    /\ ParseRest

\* the consequent loop of an if ends at '}' or at EOF
EndIfBlock ==
    /\ phase = "parse"
    /\ top.kind = "IfStatement"
    /\ ~loopCondition(top, p)
    /\ p' = skipIf(p, "RIGHT_BRACE")
    /\ stack' = appendNode(pop(stack), IfStatement(top.test, top.body))
    /\ ParseRest

\* Parse returns the Program
ParseDone ==
    /\ phase = "parse"
    /\ top.kind = "Program"
    /\ ~loopCondition(top, p)
    /\ program' = Program(top.body)
    /\ phase' = "parsed"
    /\ UNCHANGED <<pending, results, l, p, stack, calls>>

\* a printed line: the indent as a number of blanks, the format that follows
\* the indent, and the texts put into it
Line(indent, format, args) == [indent |-> indent, format |-> format, args |-> args]

RECURSIVE PrintAST(_, _)
RECURSIVE printAll(_, _)
RECURSIVE printParams(_, _)

\* for _, stmt := range list { PrintAST(stmt, indent) }
printAll(nodes, indent) ==
    IF nodes = <<>> THEN <<>>
    ELSE PrintAST(Head(nodes), indent) \o printAll(Tail(nodes), indent)

\* a child printed even when it is absent
printOptional_Always(node, indent) == PrintAST(node, indent)

\* if child != nil { PrintAST(child, indent) }
printOptional(node, indent) == IF node # Nil THEN PrintAST(node, indent) ELSE <<>>

\* one parameter: its name, and its default value if it has one
printParam(param, indent) ==
    IF param.DefaultValue # Nil
    THEN <<Line(indent + 4, "%s (default):", <<param.Name>>)>>
         \o PrintAST(param.DefaultValue, indent + 6)
    ELSE <<Line(indent + 4, "%s", <<param.Name>>)>>

printParams(params, indent) ==
    IF params = <<>> THEN <<>>
    ELSE printParam(Head(params), indent) \o printParams(Tail(params), indent)

\* the type switch of PrintAST; an absent node falls to the default case
PrintAST(node, indent) ==
    CASE node.type = "Program" ->
            <<Line(indent, "Program:", <<>>)>> \o printAll(node.Body, indent + 2)
      [] node.type = "FunctionDeclaration" ->
            <<Line(indent, "FunctionDeclaration: %s", <<node.Name>>),
              Line(indent + 2, "Parameters:", <<>>)>>
            \o printParams(node.Params, indent)
            \o <<Line(indent + 2, "Body:", <<>>)>>
            \o printAll(node.Body, indent + 4)
      [] node.type = "IfStatement" ->
            <<Line(indent, "IfStatement:", <<>>),
              Line(indent + 2, "Condition:", <<>>)>>
            \o PrintAST(node.Test, indent + 4)
            \o <<Line(indent + 2, "Body:", <<>>)>>
            \o printAll(node.Consequent, indent + 4)
      [] node.type = "BinaryExpression" ->
            <<Line(indent, "BinaryExpression: %s", <<node.Operator>>),
              Line(indent + 2, "Left:", <<>>)>>
            \o PrintAST(node.Left, indent + 4)
            \o <<Line(indent + 2, "Right:", <<>>)>>
            \o PrintAST(node.Right, indent + 4)
      [] node.type = "ReturnStatement" ->
            <<Line(indent, "ReturnStatement:", <<>>)>>
            \o printOptional(node.Argument, indent + 2)
      [] node.type = "Identifier" -> <<Line(indent, "Identifier: %s", <<node.Name>>)>>
      [] node.type = "StringLiteral" -> <<Line(indent, "StringLiteral: %s", <<node.Value>>)>>
      [] node.type = "NumericLiteral" -> <<Line(indent, "NumericLiteral: %s", <<node.Value>>)>>
      [] node.type = "VariableDeclaration" ->
            <<Line(indent, "VariableDeclaration: %s %s", <<node.Kind, node.Name>>)>>
            \o printOptional(node.Value, indent + 2)
      [] node.type = "Comment" -> <<Line(indent, "Comment: %s", <<node.Text>>)>>
      [] OTHER -> <<Line(indent, "Unknown node type", <<>>)>>

\* the outcome of a run of main; after Parse main prints the tree
Outcome ==
    [input   |-> l.input,
     calls   |-> calls,
     faulted |-> phase = "panic",
     tokens  |-> l.tokens,
     program |-> IF phase = "parsed" THEN program ELSE Nil,
     printed |-> IF phase = "parsed" THEN PrintAST(program, 0) ELSE <<>>]

\* main ends, normally or by a panic
Finish ==
    /\ phase \in {"parsed", "panic"}
    /\ results' = Append(results, Outcome)
    /\ phase' = "idle"
    /\ UNCHANGED <<pending, l, p, stack, program, calls>>

NextLex ==
    \/ CreateLexer
    \/ CallTokenize
    \/ LexSpace
    \/ LexComment
    \/ LexIdentifier
    \/ LexString
    \/ LexPunct
    \/ LexNumber
    \/ LexUnknown
    \/ LexEOF
    \/ StartParse

NextParse ==
    \/ ParseCommentStatement
    \/ ParseReturnStatement
    \/ ParseVariableDeclaration
    \/ ParseFunctionDeclaration
    \/ ParseIfStatement
    \/ SkipToken
    \/ EndFunctionBody
    \/ EndIfBlock
    \/ ParseDone
    \/ Finish

Next == NextLex \/ NextParse


----------------------------------------------------------------------------
(* Inputs *)

BoundedSeq(S, n) == UNION {[1..k -> S] : k \in 0..n}

\* concatenation of a sequence of texts
RECURSIVE Cat(_)
Cat(parts) == IF parts = <<>> THEN <<>> ELSE Head(parts) \o Cat(Tail(parts))

\* the words of a line separated by single spaces
RECURSIVE Join(_)
Join(words) ==
    IF words = <<>> THEN <<>>
    ELSE IF Len(words) = 1 THEN Head(words)
    ELSE Head(words) \o <<" ">> \o Join(Tail(words))

\* source texts drawn character by character
RawChars == {"a", "1", DQ, SQ, "/", "\n", " ", "=", ".", "#"}

RawTexts == BoundedSeq(RawChars, MaxLen)

\* texts made of blanks and comment lines, the last newline possibly missing
CommentItems ==
    {<<" ">>, <<"\n">>, <<"\t">>,
     <<"/", "/", "\n">>,
     <<"/", "/", " ", "a", " ", "\n">>,
     <<"/", "/", "x", "/", "/", DQ, "\n">>}

DropLastNewline(t) ==
    IF t # <<>> /\ t[Len(t)] = "\n" THEN SubSeq(t, 1, Len(t) - 1) ELSE t

CommentTexts ==
    LET whole == {Cat(items) : items \in BoundedSeq(CommentItems, MaxItems)}
    IN  whole \cup {DropLastNewline(t) : t \in whole}

\* operands and operators as they are written
OperandWords == {<<"a">>, <<"b", "1">>, <<"1", "0">>, <<"5">>, <<"2", ".", "5">>,
                 <<DQ, "s", DQ>>, <<SQ, "t", " ", SQ>>}

OperatorWords == {<<"=", "=">>, <<"=">>, <<"+">>, <<"-">>, <<"*">>, <<"/">>,
                  <<"%">>, <<">">>, <<"<">>, <<">", "=">>, <<"<", "=">>}

KindWords == {Keywords.const, Keywords.let, Keywords.var}

NameWords == {<<"x">>, <<"s", "u", "m">>}

\* K N = A op B;
DeclTexts ==
    {Join(<<k, n, <<"=">>, a, op, b>>) \o <<";">> :
        k \in KindWords, n \in NameWords, a \in OperandWords,
        op \in OperatorWords, b \in OperandWords}

\* return "...";  and  const x = '...';  with any short text between the quotes
StringBodies(q) == BoundedSeq({"a", " ", DQ, SQ} \ {q}, MaxLen)

StringTexts ==
    UNION {{Join(<<h, <<q>> \o body \o <<q>> >>) \o <<";">> :
               h \in {Keywords.return, Join(<<Keywords.const, <<"x">>, <<"=">> >>)},
               body \in StringBodies(q)} : q \in {DQ, SQ}}

\* a statement whose expression chains three or more operands
ChainOperands == {<<"a">>, <<"7">>, <<DQ, "s", DQ>>}

ChainOperators == {<<"+">>, <<"=", "=">>}

ChainTails ==
    UNION {[1..k -> ChainOperators \X ChainOperands] : k \in 2..(1 + MaxExtra)}

RECURSIVE TailWords(_)
TailWords(tail) ==
    IF tail = <<>> THEN <<>>
    ELSE <<Head(tail)[1], Head(tail)[2]>> \o TailWords(Tail(tail))

ChainHeads == {<<Keywords.return>>, <<Keywords.let, <<"x">>, <<"=">> >>}

ChainTexts ==
    {Join(h \o <<a>> \o TailWords(tail)) \o semi :
        h \in ChainHeads, a \in ChainOperands, tail \in ChainTails,
        semi \in {<<>>, <<";">>}}

\* statements that end in a semicolon, written without it
StatementWords ==
    {<<Keywords.return>>,
     <<Keywords.return, <<"a">> >>,
     <<Keywords.return, <<"a">>, <<"+">>, <<"1">> >>,
     <<Keywords.const, <<"x">>, <<"=">>, <<"1">> >>,
     <<Keywords.let, <<"y">>, <<"=">>, <<"a">>, <<"*">>, <<"b">> >>,
     <<Keywords.var, <<"z">> >>}

StatementSeqs == UNION {[1..k -> StatementWords] : k \in 1..MaxStmts}

\* the statements one per line; statement number omit has no semicolon
RECURSIVE Lines(_, _, _)
Lines(stmts, i, omit) ==
    IF i > Len(stmts) THEN <<>>
    ELSE Join(stmts[i]) \o (IF i = omit THEN <<>> ELSE <<";">>) \o <<"\n">>
         \o Lines(stmts, i + 1, omit)

\* the statements at top level, in a function body, or in an if block
Contexts == {"top", "function", "if"}

Wrap(ctx, body) ==
    CASE ctx = "top" -> body
      [] ctx = "function" ->
            Join(<<Keywords.function, <<"f", "(", "a", ")">>, <<"{">> >>)
            \o <<"\n">> \o body \o <<"}">>
      [] ctx = "if" ->
            Join(<<Keywords.if, <<"(", "a", ">", "1", ")">>, <<"{">> >>)
            \o <<"\n">> \o body \o <<"}">>

\* a text and the same text with one trailing semicolon left out
SemicolonPairs ==
    UNION {{<<Wrap(ctx, Lines(stmts, 1, 0)), Wrap(ctx, Lines(stmts, 1, omit))>> :
               ctx \in Contexts, omit \in 1..Len(stmts)} :
           stmts \in StatementSeqs}

\* parameters as they are written: a name, or a name = a default value
ParameterWords ==
    {<< <<"x">> >>,
     << <<"y">>, <<"=">>, <<"1">> >>,
     << <<"z">>, <<"=">>, <<DQ, "s", DQ>> >>}

ParameterLists == BoundedSeq(ParameterWords, MaxParams)

\* the parameters separated by a comma and a space
RECURSIVE CommaList(_)
CommaList(params) ==
    IF params = <<>> THEN <<>>
    ELSE IF Len(params) = 1 THEN Join(Head(params))
    ELSE Join(Head(params)) \o <<",", " ">> \o CommaList(Tail(params))

\* the statements of a generated block, each written with its semicolon
BodyWords ==
    {<<Keywords.return>>,
     <<Keywords.return, <<"a">> >>,
     <<Keywords.let, <<"y">>, <<"=">>, <<"a">>, <<"*">>, <<"b">> >>,
     <<Keywords.var, <<"z">> >>}

BodySeqs == BoundedSeq(BodyWords, MaxStmts)

\* function f(P1, P2) { S1; S2; }  with one statement per line
FunctionText(params, stmts) ==
    Join(<<Keywords.function, <<"f", "(">> \o CommaList(params) \o <<")">>, <<"{">> >>)
    \o <<"\n">> \o Lines(stmts, 1, 0) \o <<"}">>

FunctionCases == ParameterLists \X BodySeqs

FunctionTexts == {FunctionText(c[1], c[2]) : c \in FunctionCases}

\* a parameter list whose last default value is missing its operand
DanglingDefaults ==
    {<< <<"x">>, <<"=">> >>,
     << <<"x">>, <<"=">>, <<"1">>, <<"+">> >>}

DanglingDefaultTexts ==
    {Join(<<Keywords.function, <<"f", "(">> \o Join(d) \o <<")">>, <<"{">>,
            Keywords.return, <<"y", ";">>, <<"}">> >>) : d \in DanglingDefaults}

\* if (A op B) { S1; S2; }  with one statement per line, the closing brace
\* possibly missing
IfTests ==
    {<<a, op, b>> : a \in {<<"a">>, <<"1", "0">>}, op \in {<<">">>, <<"=", "=">>},
                    b \in {<<"1">>, <<"b">>}}

IfText(test, stmts, closed) ==
    Join(<<Keywords.if, <<"(">> \o Join(test) \o <<")">>, <<"{">> >>)
    \o <<"\n">> \o Lines(stmts, 1, 0) \o (IF closed THEN <<"}">> ELSE <<>>)

IfCases == IfTests \X BodySeqs \X BOOLEAN

IfTexts == {IfText(c[1], c[2], c[3]) : c \in IfCases}

\* texts of the characters = > < between operands and blanks
LookaheadChars == {"=", ">", "<", "x", "1", " "}

SampleEquality == <<"x", " ", "=", "=", " ", "1">>

LookaheadTexts == BoundedSeq(LookaheadChars, MaxLen) \cup {SampleEquality}

\* reserved words, other spellings of them, and plain names
IdentifierWords ==
    {Keywords.function, Keywords.return, Keywords.const, Keywords.let,
     Keywords.var, Keywords.if,
     <<"F", "u", "n", "c", "t", "i", "o", "n">>, <<"I", "f">>, <<"V", "A", "R">>,
     <<"i", "f", "f", "y">>, <<"l", "e", "t", "1">>, <<"r", "e", "t", "u", "r", "n", "_">>,
     <<"_", "i", "f">>, <<"c", "o", "n", "s">>, <<"x", "_", "1">>, <<"_">>}

\* what stands between two words
WordGaps == {<<" ">>, <<"(">>, <<"1">>, <<".">>}

IdentifierTexts ==
    IdentifierWords
    \cup {a \o g \o b : a \in IdentifierWords, g \in WordGaps, b \in IdentifierWords}

\* texts of slashes, double quotes, newlines and a letter
SlashChars == {"/", DQ, "\n", "a"}

SlashTexts == BoundedSeq(SlashChars, MaxLen + 1)

\* tests of an if that chain three or four operands
LongTests ==
    {<< <<"a">>, <<"+">>, <<"b">>, <<">">>, <<"1">> >>,
     << <<"a">>, <<"=", "=">>, <<"1">>, <<"+">>, <<"b">>, <<"*">>, <<"2">> >>}

\* function f() { ... }  around a statement
InFunction(text) ==
    Join(<<Keywords.function, <<"f", "(", ")">>, <<"{">> >>) \o <<"\n">>
    \o text \o <<"\n">> \o <<"}">>

LongTestCases == LongTests \X BodySeqs

\* an if with such a test, at top level and as the body of a function
LongTestTexts ==
    UNION {{IfText(c[1], c[2], TRUE), InFunction(IfText(c[1], c[2], TRUE))} :
           c \in LongTestCases}

\* every text is processed by one run of main; some twice, some next to a
\* variant of itself
Batches ==
    {<<t, t>> : t \in RawTexts}
    \cup {<<t>> : t \in CommentTexts \cup DeclTexts \cup StringTexts \cup ChainTexts}
    \cup SemicolonPairs
    \cup {<<t>> : t \in FunctionTexts \cup DanglingDefaultTexts \cup IfTexts
                        \cup LookaheadTexts \cup IdentifierTexts \cup SlashTexts
                        \cup LongTestTexts}

\* token sequences handed to NewParser directly, with or without an EOF
TokenKinds ==
    {Token("COMMENT", <<"/", "/">>), Token("FUNCTION", Keywords.function),
     Token("RETURN", Keywords.return), Token("CONST", Keywords.const),
     Token("IF", Keywords.if), Token("IDENTIFIER", <<"a">>),
     Token("LEFT_PAREN", <<"(">>), Token("RIGHT_PAREN", <<")">>),
     Token("LEFT_BRACE", <<"{">>), Token("RIGHT_BRACE", <<"}">>),
     Token("SEMICOLON", <<";">>), Token("EQUALS", <<"=">>), EOFToken}

TokenInputs == BoundedSeq(TokenKinds, MaxTokens)

----------------------------------------------------------------------------
(* Specifications *)

\* before NewLexer and NewParser are called there is no Lexer and no Parser
NoLexer == [input |-> <<>>, pos |-> 0, tokens |-> <<>>]

NoParser == [tokens |-> <<>>, pos |-> 0, fault |-> FALSE, advances |-> 0]

\* main run on each text of a batch: NewLexer, Tokenize, NewParser, Parse
Init ==
    /\ pending \in Batches
    /\ results = <<>>
    /\ phase = "idle"
    /\ l = NoLexer
    /\ p = NoParser
    /\ stack = <<>>
    /\ program = Nil
    /\ calls = 0

Spec == Init /\ [][Next]_vars

\* a Parser constructed on an arbitrary token sequence
InitTokens ==
    /\ pending = <<>>
    /\ results = <<>>
    /\ phase = "parse"
    /\ l = NoLexer
    /\ \E toks \in TokenInputs : p = NewParser(toks)
    /\ stack = <<ProgramFrame>>
    /\ program = Nil
    /\ calls = 0

SpecTokens == InitTokens /\ [][NextParse]_vars


----------------------------------------------------------------------------
(* Properties *)

Last(seq) == seq[Len(seq)]

\* C1: Tokenize returns on every input text without a run-time fault, and a
\* string literal whose closing quote is missing becomes a STRING token that
\* runs from its opening quote to the end of the input.
C1_TokenizeNeverFaults ==
    /\ phase # "panic"
    /\ (phase = "tokenize" /\ l.pos > Len(l.input)) =>
          /\ l.tokens # <<>>
          /\ Last(l.tokens).Type = "STRING"
          /\ \E start \in 0..(Len(l.input) - 1) :
                Last(l.tokens).Value = Slice(l.input, start, Len(l.input))

\* the token sequence ends in an EOF token
EndsInEOF(toks) == toks # <<>> /\ Last(toks).Type = "EOF"

\* C2: on a token sequence that ends in EOF, a block loop (function body or
\* if block) that finds the end marker stops: the step taken at EOF inside a
\* block closes that block, so Parse terminates with the truncated tree.
C2_BlockLoopStopsAtEOF ==
    [][(/\ phase = "parse"
        /\ EndsInEOF(p.tokens)
        /\ Len(stack) > 1
        /\ current(p).Type = "EOF")
       => Len(stack') < Len(stack)]_vars

\* C3: the parser raises no fault on any token sequence: no read of the
\* token sequence is outside its bounds, and at or past the end the current
\* token is EOF with an empty literal.
C3_ParserNeverFaults ==
    phase \in {"parse", "parsed"} =>
        /\ ~p.fault
        /\ ~IndexFault(p)
        /\ p.pos >= 0
        /\ (p.pos >= Len(p.tokens) => current(p) = [Type |-> "EOF", Value |-> <<>>])

\* C3 witness: Parse has returned on a non-empty token sequence without EOF
\* after reading past its end
C3_Witness ==
    /\ phase = "parsed"
    /\ p.tokens # <<>>
    /\ \A i \in 1..Len(p.tokens) : p.tokens[i].Type # "EOF"
    /\ p.pos > Len(p.tokens)

\* C4: the token sequence Tokenize returns on a fresh Lexer ends with one EOF
\* token with empty literal, and no earlier token is an EOF token.
C4_ExactlyOneEOF ==
    (phase = "tokenized" /\ calls = 1) =>
        /\ l.tokens # <<>>
        /\ Last(l.tokens) = [Type |-> "EOF", Value |-> <<>>]
        /\ \A i \in 1..(Len(l.tokens) - 1) : l.tokens[i].Type # "EOF"

\* C4 witness: a first Tokenize has returned several tokens
C4_Witness ==
    /\ phase = "tokenized"
    /\ calls = 1
    /\ Len(l.tokens) >= 3

\* two finished runs, each with one Tokenize call, on the same text
SameTextRuns(i, j) ==
    /\ i # j
    /\ results[i].input = results[j].input
    /\ results[i].calls = 1
    /\ results[j].calls = 1

\* C5: two Lexers created on the same text return token sequences that are
\* equal element by element (and fault on the same texts).
C5_TokenizeDeterministic ==
    \A i, j \in 1..Len(results) :
        SameTextRuns(i, j) =>
            /\ results[i].faulted = results[j].faulted
            /\ Len(results[i].tokens) = Len(results[j].tokens)
            /\ \A k \in 1..Len(results[i].tokens) :
                  /\ results[i].tokens[k].Type = results[j].tokens[k].Type
                  /\ results[i].tokens[k].Value = results[j].tokens[k].Value

\* C5 witness: two runs on the same text have returned several tokens
C5_Witness ==
    /\ Len(results) = 2
    /\ SameTextRuns(1, 2)
    /\ ~results[2].faulted
    /\ Len(results[2].tokens) >= 3


\* the body of the tree under construction while Parse runs at top level,
\* and of the Program once it has returned
TopBody == IF phase = "parsed" THEN program.Body ELSE stack[1].body

\* the types of the tokens of toks from position i on
TypesFrom(toks, i) == [k \in 1..(Len(toks) - i + 1) |-> toks[i + k - 1].Type]

PrimaryTypes == {"IDENTIFIER", "NUMBER", "STRING"}

OperatorTypes == {"EQUALITY", "EQUALS", "PLUS", "MINUS", "MULTIPLY", "DIVIDE",
                  "MODULO", "GREATER_THAN", "LESS_THAN", "GREATER_EQUAL",
                  "LESS_EQUAL"}

KindTypes == {"CONST", "LET", "VAR"}

\* the text strictly between the first and the last character
Between(v) == SubSeq(v, 2, Len(v) - 1)

\* the tokens are exactly: return STRING ;  or  K N = STRING
IsReturnString(toks) == TypesFrom(toks, 1) = <<"RETURN", "STRING", "SEMICOLON", "EOF">>

\* C6: the StringLiteral built from a STRING token that opens and closes with
\* the same quote has as Value exactly the text between those two quotes,
\* whatever that text contains.
C6_StringValueIsTextBetweenQuotes ==
    (phase = "parsed" /\ calls = 1 /\ IsReturnString(l.tokens)) =>
        LET v == l.tokens[2].Value
        IN  (Len(v) >= 2 /\ v[1] = v[Len(v)] /\ v[1] \in {DQ, SQ}) =>
                program = [type |-> "Program",
                           Body |-> << [type |-> "ReturnStatement",
                                        Argument |-> [type |-> "StringLiteral",
                                                      Value |-> Between(v)]] >>]

\* the leaf node of an identifier, number or string token
LeafOf(tok) ==
    CASE tok.Type = "IDENTIFIER" -> [type |-> "Identifier", Name |-> tok.Value]
      [] tok.Type = "NUMBER" -> [type |-> "NumericLiteral", Value |-> tok.Value]
      [] tok.Type = "STRING" -> [type |-> "StringLiteral", Value |-> cleanValue(tok.Value)]

BinaryOf(toks, i) ==
    [type |-> "BinaryExpression", Left |-> LeafOf(toks[i]),
     Operator |-> toks[i + 1].Value, Right |-> LeafOf(toks[i + 2])]

\* from position i the tokens are: primary (operator primary){n}, an
\* optional semicolon, EOF
IsChainOf(toks, i, n) ==
    /\ Len(toks) \in {i + 2 * n + 1, i + 2 * n + 2}
    /\ \A k \in 0..n : toks[i + 2 * k].Type \in PrimaryTypes
    /\ \A k \in 1..n : toks[i + 2 * k - 1].Type \in OperatorTypes
    /\ Last(toks).Type = "EOF"
    /\ Len(toks) = i + 2 * n + 2 => toks[i + 2 * n + 1].Type = "SEMICOLON"

\* three or more operands
IsChain(toks, i) == \E n \in 2..Len(toks) : IsChainOf(toks, i, n)

IsReturnChain(toks) ==
    /\ Len(toks) >= 2
    /\ toks[1].Type = "RETURN"
    /\ IsChain(toks, 2)

IsDeclChain(toks) ==
    /\ Len(toks) >= 4
    /\ TypesFrom(SubSeq(toks, 1, 3), 1) \in KindTypes \X {"IDENTIFIER"} \X {"EQUALS"}
    /\ IsChain(toks, 4)

\* C7: a return statement or variable declaration whose expression chains
\* three or more operands gets the BinaryExpression of the first two operands
\* and the first operator; the rest of the chain is skipped token by token
\* and adds no node to the tree.
C7_ChainKeepsFirstTwoOperands ==
    ((phase = "parse" /\ p.pos > 0) \/ phase = "parsed") =>
        /\ IsReturnChain(p.tokens) =>
              /\ TopBody = << [type |-> "ReturnStatement",
                               Argument |-> BinaryOf(p.tokens, 2)] >>
              /\ p.pos >= 4
        /\ IsDeclChain(p.tokens) =>
              /\ TopBody = << [type |-> "VariableDeclaration",
                               Kind |-> p.tokens[1].Value,
                               Name |-> p.tokens[2].Value,
                               Value |-> BinaryOf(p.tokens, 4)] >>
              /\ p.pos >= 6

\* C7 witness: Parse has returned on return A op B op C op D;
C7_Witness ==
    /\ phase = "parsed"
    /\ IsReturnChain(p.tokens)
    /\ Len(p.tokens) = 10
    /\ Len(program.Body) = 1

\* two finished runs, the second on the text of the first with one trailing
\* semicolon of a return statement or variable declaration left out
SemicolonRuns ==
    /\ Len(results) = 2
    /\ results[1].calls = 1
    /\ results[2].calls = 1
    /\ <<results[1].input, results[2].input>> \in SemicolonPairs

\* C8: leaving out the trailing semicolon of a return statement or of a
\* variable declaration does not change the Program that Tokenize followed
\* by Parse produces.
C8_SemicolonOptional ==
    SemicolonRuns => results[1].program = results[2].program

\* the text up to the first newline, and the text after it
FirstLine(t) == SubSeq(t, 1, ScanUntil(t, 0, "\n"))

AfterFirstLine(t) == SubSeq(t, ScanUntil(t, 0, "\n") + 2, Len(t))

\* a line without its leading blanks
Unindented(line) == SubSeq(line, ScanWhile(line, 0, SpaceChars) + 1, Len(line))

\* the lines of a text that are not blank, each without its leading blanks
RECURSIVE NonBlankLines(_)
NonBlankLines(t) ==
    IF t = <<>> THEN <<>>
    ELSE (IF Unindented(FirstLine(t)) = <<>> THEN <<>>
          ELSE <<Unindented(FirstLine(t))>>)
         \o NonBlankLines(AfterFirstLine(t))

\* every line is blank or a comment, possibly indented
OnlyBlanksAndComments(t) ==
    \A i \in 1..Len(NonBlankLines(t)) :
        LET line == NonBlankLines(t)[i]
        IN  Len(line) >= 2 /\ line[1] = "/" /\ line[2] = "/"

\* C9: for a text of whitespace and // comments only, the Program holds one
\* Comment per comment, in source order, whose Text is the comment from its
\* // up to but excluding the newline, and nothing else.
C9_CommentsOnly ==
    (phase = "parsed" /\ OnlyBlanksAndComments(l.input)) =>
        program = [type |-> "Program",
                   Body |-> [i \in 1..Len(NonBlankLines(l.input)) |->
                                [type |-> "Comment", Text |-> NonBlankLines(l.input)[i]]]]

\* C9 witness: a text of blanks and at least two comments has been parsed
C9_Witness ==
    /\ phase = "parsed"
    /\ OnlyBlanksAndComments(l.input)
    /\ Len(NonBlankLines(l.input)) >= 2
    /\ Len(program.Body) >= 2

\* the tokens are exactly: K N = A op B ; EOF
IsBinaryDecl(toks) ==
    /\ Len(toks) = 8
    /\ TypesFrom(toks, 1) \in KindTypes \X {"IDENTIFIER"} \X {"EQUALS"} \X PrimaryTypes
                             \X OperatorTypes \X PrimaryTypes \X {"SEMICOLON"} \X {"EOF"}

\* const sum = 10 + 5;
SampleDecl ==
    <<"c", "o", "n", "s", "t", " ", "s", "u", "m", " ", "=", " ", "1", "0", " ",
      "+", " ", "5", ";">>

\* C10: K N = A op B; parses to exactly one VariableDeclaration with Kind the
\* text of K, Name N and Value the BinaryExpression of A, op and B; const sum
\* = 10 + 5; gives const, sum, 10 + 5.
C10_DeclarationOfBinaryExpression ==
    /\ (phase = "parsed" /\ IsBinaryDecl(p.tokens)) =>
          program = [type |-> "Program",
                     Body |-> << [type |-> "VariableDeclaration",
                                  Kind |-> p.tokens[1].Value,
                                  Name |-> p.tokens[2].Value,
                                  Value |-> BinaryOf(p.tokens, 4)] >>]
    /\ (phase = "parsed" /\ l.input = SampleDecl) =>
          program.Body =
             << [type |-> "VariableDeclaration",
                 Kind |-> <<"c", "o", "n", "s", "t">>,
                 Name |-> <<"s", "u", "m">>,
                 Value |-> [type |-> "BinaryExpression",
                            Left |-> [type |-> "NumericLiteral", Value |-> <<"1", "0">>],
                            Operator |-> <<"+">>,
                            Right |-> [type |-> "NumericLiteral", Value |-> <<"5">>]]] >>

\* C10 witness: a declaration with the operator % has been parsed
C10_Witness ==
    /\ phase = "parsed"
    /\ IsBinaryDecl(p.tokens)
    /\ p.tokens[5].Type = "MODULO"
    /\ Len(program.Body) = 1

\* the node a written operand stands for
ExpectedOperand(word) ==
    IF word[1] \in Digits THEN [type |-> "NumericLiteral", Value |-> word]
    ELSE IF word[1] \in {DQ, SQ} THEN [type |-> "StringLiteral", Value |-> Between(word)]
    ELSE [type |-> "Identifier", Name |-> word]

\* the node of the expression written from word i on: A or A op B
ExpectedExpression(words, i) ==
    IF Len(words) = i THEN ExpectedOperand(words[i])
    ELSE [type |-> "BinaryExpression", Left |-> ExpectedOperand(words[i]),
          Operator |-> words[i + 1], Right |-> ExpectedOperand(words[i + 2])]

\* the node of a statement written as: return [E]  or  K N [= E]
ExpectedStatement(words) ==
    IF words[1] = <<"r", "e", "t", "u", "r", "n">>
    THEN [type |-> "ReturnStatement",
          Argument |-> IF Len(words) = 1 THEN Nil ELSE ExpectedExpression(words, 2)]
    ELSE [type |-> "VariableDeclaration", Kind |-> words[1], Name |-> words[2],
          Value |-> IF Len(words) = 2 THEN Nil ELSE ExpectedExpression(words, 4)]

ExpectedStatements(stmts) == [i \in 1..Len(stmts) |-> ExpectedStatement(stmts[i])]

\* the Parameter of a parameter written as: N  or  N = D
ExpectedParameter(words) ==
    [Name |-> words[1],
     DefaultValue |-> IF Len(words) = 1 THEN Nil ELSE ExpectedOperand(words[3])]

\* each generated function declaration next to the tree it stands for
FunctionExpected ==
    {<<FunctionText(c[1], c[2]),
       [type |-> "Program",
        Body |-> << [type |-> "FunctionDeclaration", Name |-> <<"f">>,
                     Params |-> [i \in 1..Len(c[1]) |-> ExpectedParameter(c[1][i])],
                     Body |-> ExpectedStatements(c[2])] >>] >> : c \in FunctionCases}

\* C11: a declaration function f(P1, ..., Pn) { S1; ...; Sm; }, each
\* parameter a name optionally followed by = and one primary default value,
\* parses to one FunctionDeclaration named f whose Params hold one Parameter
\* per written parameter in order (DefaultValue absent without a default) and
\* whose Body holds the nodes of the body statements in order.
C11_FunctionDeclarationShape ==
    (phase = "parsed" /\ l.input \in FunctionTexts) =>
        <<l.input, program>> \in FunctionExpected

\* C11 witness: Parse has returned on a function with two parameters, the
\* second with a default value, and two body statements
C11_Witness ==
    /\ phase = "parsed"
    /\ l.input \in FunctionTexts
    /\ Len(program.Body) = 1
    /\ Len(program.Body[1].Params) = 2
    /\ program.Body[1].Params[1].DefaultValue = Nil
    /\ program.Body[1].Params[2].DefaultValue # Nil
    /\ Len(program.Body[1].Body) = 2

\* the token types of = > < alone and followed by =
SingleType(c) ==
    CASE c = "=" -> "EQUALS" [] c = ">" -> "GREATER_THAN" [] c = "<" -> "LESS_THAN"

DoubleType(c) ==
    CASE c = "=" -> "EQUALITY" [] c = ">" -> "GREATER_EQUAL" [] c = "<" -> "LESS_EQUAL"

\* C12: at one of the characters = > < the lexer looks one character ahead:
\* followed by = it emits the two-character token (EQUALITY, GREATER_EQUAL,
\* LESS_EQUAL) and consumes both characters, otherwise it emits the
\* one-character token and consumes one; the text x == 1 tokenizes to
\* IDENTIFIER x, EQUALITY ==, NUMBER 1, EOF.
C12_OneCharacterLookahead ==
    [][/\ (/\ phase = "tokenize"
           /\ l.pos < Len(l.input)
           /\ l.input[l.pos + 1] \in {"=", ">", "<"}) =>
             LET c == l.input[l.pos + 1]
             IN  IF l.pos + 2 <= Len(l.input) /\ l.input[l.pos + 2] = "="
                 THEN /\ l'.tokens = Append(l.tokens, [Type |-> DoubleType(c),
                                                       Value |-> <<c, "=">>])
                      /\ l'.pos = l.pos + 2
                 ELSE /\ l'.tokens = Append(l.tokens, [Type |-> SingleType(c),
                                                       Value |-> <<c>>])
                      /\ l'.pos = l.pos + 1
       /\ (phase' = "tokenized" /\ calls' = 1 /\ l'.input = SampleEquality) =>
             l'.tokens = << [Type |-> "IDENTIFIER", Value |-> <<"x">>],
                            [Type |-> "EQUALITY", Value |-> <<"=", "=">>],
                            [Type |-> "NUMBER", Value |-> <<"1">>],
                            [Type |-> "EOF", Value |-> <<>>] >>]_vars

\* C12 witness: Tokenize has returned on a text that ends in >= after a
\* single < was emitted
C12_Witness ==
    /\ phase = "tokenized"
    /\ calls = 1
    /\ Len(l.tokens) = 3
    /\ l.tokens[1].Type = "LESS_THAN"
    /\ l.tokens[2].Type = "GREATER_EQUAL"
    /\ l.pos = Len(l.input)

\* C13: while Parse runs the cursor never moves back: the only change to it
\* is the increment by one of next(), so every step of a production raises
\* the position by exactly the number of increments it makes, possibly none,
\* and never lowers it; the token sequence is left as it is.
C13_CursorOnlyAdvances ==
    [][(phase = "parse" /\ phase' \in {"parse", "parsed"}) =>
          /\ p'.pos >= p.pos
          /\ p'.pos - p.pos = p'.advances - p.advances
          /\ p'.tokens = p.tokens]_vars

\* C13 witness: Parse has returned after moving the cursor over a function
\* declaration with a parameter list and a body
C13_Witness ==
    /\ phase = "parsed"
    /\ p.pos = 4
    /\ p.advances = 4
    /\ Len(program.Body) = 1
    /\ program.Body[1].type = "FunctionDeclaration"

\* the tokens a step has consumed: those from the old cursor up to the new
Consumed == {i \in (p.pos + 1)..p'.pos : i <= Len(p.tokens)}

\* function f(a) { S1 S2 } where at most one statement lacks its semicolon
FunctionBodyTexts ==
    {Wrap("function", Lines(stmts, 1, omit)) :
        stmts \in StatementSeqs, omit \in 0..MaxStmts}

\* C14: a statement parsed inside a function body never consumes the closing
\* brace of that body: while the body loop of a function runs its
\* statements, no statement step takes a RIGHT_BRACE, so the brace is left
\* for the loop to end on and parsing resumes right after it.
C14_BodyStatementLeavesBrace ==
    [][(/\ phase = "parse"
        /\ l.input \in FunctionBodyTexts
        /\ stack[Len(stack)].kind = "FunctionDeclaration"
        /\ p.pos < Len(p.tokens)
        /\ p.tokens[p.pos + 1].Type # "RIGHT_BRACE")
       => \A i \in Consumed : p.tokens[i].Type # "RIGHT_BRACE"]_vars

\* the first position from i on whose token has one of the types, or the
\* position after the last token
RECURSIVE FirstOf(_, _, _)
FirstOf(toks, i, types) ==
    IF i > Len(toks) \/ toks[i].Type \in types THEN i
    ELSE FirstOf(toks, i + 1, types)

\* the parameters of the function declaration a step has just started or
\* completed
DeclaredParams ==
    IF Len(stack') > Len(stack) THEN stack'[Len(stack')].params
    ELSE Last(stack'[Len(stack')].body).Params

\* C15: the parameter list of a function declaration ends at the first
\* RIGHT_PAREN after its LEFT_PAREN, or at EOF: the parameters come from the
\* identifiers before that position only, and the cursor is left right after
\* that RIGHT_PAREN, or after the LEFT_BRACE that directly follows it.
C15_ParameterListEndsAtFirstParen ==
    [][(/\ phase = "parse"
        /\ p.pos + 3 <= Len(p.tokens)
        /\ p.tokens[p.pos + 1].Type = "FUNCTION"
        /\ p.tokens[p.pos + 3].Type = "LEFT_PAREN")
       => LET close == FirstOf(p.tokens, p.pos + 4, {"RIGHT_PAREN", "EOF"})
              closed == close <= Len(p.tokens) /\ p.tokens[close].Type = "RIGHT_PAREN"
              braced == /\ closed
                        /\ close + 1 <= Len(p.tokens)
                        /\ p.tokens[close + 1].Type = "LEFT_BRACE"
          IN  /\ p'.pos = IF braced THEN close + 1 ELSE IF closed THEN close ELSE close - 1
              /\ Len(DeclaredParams) <=
                    Cardinality({i \in (p.pos + 4)..(close - 1) :
                                    p.tokens[i].Type = "IDENTIFIER"})
              /\ braced <=> Len(stack') > Len(stack)]_vars

\* the token at position i counted from 1; past the end it is the end marker
TokenAt(toks, i) ==
    IF i <= Len(toks) THEN toks[i] ELSE [Type |-> "EOF", Value |-> <<>>]

\* the node of one token at a primary position
LeafOrNil(tok) == IF tok.Type \in PrimaryTypes THEN LeafOf(tok) ELSE Nil

\* an operator follows the token at position i
OperatorAfter(toks, i) == TokenAt(toks, i + 1).Type \in OperatorTypes

\* the expression that starts at position i: one token, or one token, an
\* operator and one more token
ExpressionAt(toks, i) ==
    IF OperatorAfter(toks, i)
    THEN [type |-> "BinaryExpression", Left |-> LeafOrNil(TokenAt(toks, i)),
          Operator |-> TokenAt(toks, i + 1).Value,
          Right |-> LeafOrNil(TokenAt(toks, i + 2))]
    ELSE LeafOrNil(TokenAt(toks, i))

\* the number of tokens of that expression
ExpressionLength(toks, i) == IF OperatorAfter(toks, i) THEN 3 ELSE 1

\* 1 if the token at position i is a semicolon, else 0
SemicolonAt(toks, i) == IF TokenAt(toks, i).Type = "SEMICOLON" THEN 1 ELSE 0

\* the current token has the given type
AtToken(types) ==
    /\ phase = "parse"
    /\ p.pos < Len(p.tokens)
    /\ p.tokens[p.pos + 1].Type \in types

\* the step added exactly one node to the innermost statement list
AddedOne ==
    /\ Len(stack') = Len(stack)
    /\ Len(stack'[Len(stack)].body) = Len(stack[Len(stack)].body) + 1

Added == Last(stack'[Len(stack)].body)

\* C16: a return statement has zero or one expression: when the token after
\* return is SEMICOLON or EOF the Argument is absent and only return and the
\* semicolon, if there is one, are consumed; otherwise the Argument is the
\* one expression that starts after return, and the statement ends after it
\* and an optional semicolon.
C16_ReturnArgumentZeroOrOne ==
    [][AtToken({"RETURN"}) =>
          LET after == p.pos + 2
          IN  /\ AddedOne
              /\ Added.type = "ReturnStatement"
              /\ IF TokenAt(p.tokens, after).Type \in {"SEMICOLON", "EOF"}
                 THEN /\ Added.Argument = Nil
                      /\ p'.pos = p.pos + 1 + SemicolonAt(p.tokens, after)
                 ELSE /\ Added.Argument = ExpressionAt(p.tokens, after)
                      /\ p'.pos = p.pos + 1 + ExpressionLength(p.tokens, after)
                                  + SemicolonAt(p.tokens,
                                                after + ExpressionLength(p.tokens, after))]_vars

\* C16 witness: a return as the last token of the sequence has been parsed
\* to a ReturnStatement without Argument, the cursor one past the return
C16_Witness ==
    /\ phase = "parse"
    /\ Len(p.tokens) = 2
    /\ p.tokens[2].Type = "RETURN"
    /\ p.pos = 2
    /\ Len(stack) = 1
    /\ stack[1].body = << [type |-> "ReturnStatement", Argument |-> Nil] >>

\* C17: a token that starts no statement (any type other than COMMENT,
\* FUNCTION, RETURN, CONST, LET, VAR and IF; a lone SEMICOLON is one) is
\* consumed alone by parseStatement and gives no node, and every statement
\* step of a loop moves the cursor forward by at least one token.
C17_OtherTokensSkippedOneByOne ==
    [][(phase = "parse" /\ loopCondition(stack[Len(stack)], p)) =>
          /\ p'.pos >= p.pos + 1
          /\ TokenAt(p.tokens, p.pos + 1).Type
                \notin {"COMMENT", "FUNCTION", "RETURN", "CONST", "LET", "VAR", "IF"}
             => (p'.pos = p.pos + 1 /\ stack' = stack)]_vars

\* C17 witness: the parser has skipped an identifier, a semicolon and a
\* closing parenthesis at top level and built nothing
C17_Witness ==
    /\ phase = "parse"
    /\ Len(p.tokens) >= 3
    /\ p.tokens[1].Type = "IDENTIFIER"
    /\ p.tokens[2].Type = "SEMICOLON"
    /\ p.tokens[3].Type = "RIGHT_PAREN"
    /\ p.pos = 3
    /\ stack = <<ProgramFrame>>

\* the position, counted from 1, where the expression of the statement at
\* the cursor starts: after return, or after K N and an optional =
ExpressionStart ==
    IF p.tokens[p.pos + 1].Type = "RETURN" THEN p.pos + 2
    ELSE IF TokenAt(p.tokens, p.pos + 3).Type = "EQUALS" THEN p.pos + 4
    ELSE p.pos + 3

\* the statement at the cursor has an expression: every declaration, and a
\* return that is not followed by a semicolon or EOF
HasExpression ==
    /\ AtToken(KindTypes \cup {"RETURN"})
    /\ p.tokens[p.pos + 1].Type = "RETURN" =>
          TokenAt(p.tokens, p.pos + 2).Type \notin {"SEMICOLON", "EOF"}

\* the expression of the statement node just added
AddedExpression ==
    IF Added.type = "ReturnStatement" THEN Added.Argument ELSE Added.Value

\* C18: parseExpression gives a BinaryExpression exactly when the token right
\* after its first primary operand is one of the eleven operators; then the
\* Operator is that token's literal, the Right operand is the next single
\* token as a primary, and three tokens are consumed; otherwise it gives the
\* first operand alone and consumes one token.  The statement then takes a
\* semicolon if one follows.
C18_BinaryExactlyAfterOperator ==
    [][HasExpression =>
          LET e == ExpressionStart
              isBinary == AddedExpression.type = "BinaryExpression"
          IN  /\ AddedOne
              /\ isBinary <=>
                    TokenAt(p.tokens, e + 1).Type \in
                        {"EQUALITY", "EQUALS", "PLUS", "MINUS", "MULTIPLY", "DIVIDE",
                         "MODULO", "GREATER_THAN", "LESS_THAN", "GREATER_EQUAL",
                         "LESS_EQUAL"}
              /\ isBinary =>
                    /\ AddedExpression.Left = LeafOrNil(TokenAt(p.tokens, e))
                    /\ AddedExpression.Operator = TokenAt(p.tokens, e + 1).Value
                    /\ AddedExpression.Right = LeafOrNil(TokenAt(p.tokens, e + 2))
                    /\ p'.pos = e + 2 + SemicolonAt(p.tokens, e + 3)
              /\ ~isBinary =>
                    /\ AddedExpression = LeafOrNil(TokenAt(p.tokens, e))
                    /\ p'.pos = e + SemicolonAt(p.tokens, e + 1)]_vars

\* C18 witness: a return whose first operand is followed by an operator has
\* been parsed to a BinaryExpression, and a declaration whose value is
\* followed by a semicolon to a single operand
C18_Witness ==
    /\ phase = "parsed"
    /\ Len(program.Body) = 2
    /\ program.Body[1].type = "ReturnStatement"
    /\ program.Body[1].Argument.type = "BinaryExpression"
    /\ program.Body[2].type = "VariableDeclaration"
    /\ program.Body[2].Value.type = "NumericLiteral"

\* the Test of the if statement a step has just started or completed
StartedTest ==
    IF Len(stack') > Len(stack) THEN stack'[Len(stack')].test
    ELSE Last(stack'[Len(stack')].body).Test

\* 1 if the token at position i has the type, else 0
OneIf(toks, i, type) == IF TokenAt(toks, i).Type = type THEN 1 ELSE 0

\* C19: parsePrimary consumes exactly one token whatever it is: an
\* IDENTIFIER, NUMBER or STRING gives its leaf node, every other token
\* (delimiter, keyword, EOF) is consumed too and gives an absent node.  So the
\* Value of a declaration and the Test of an if are made of the tokens at
\* their primary positions, one token per operand, absent where the token is
\* no operand, and the cursor moves on by one per primary.
C19_PrimaryConsumesOneToken ==
    [][/\ AtToken(KindTypes) =>
             LET e == ExpressionStart
                 n == ExpressionLength(p.tokens, e)
             IN  /\ AddedOne
                 /\ Added.Value = ExpressionAt(p.tokens, e)
                 /\ p'.pos = e - 1 + n + SemicolonAt(p.tokens, e + n)
       /\ (AtToken({"IF"}) /\ TokenAt(p.tokens, p.pos + 2).Type = "LEFT_PAREN") =>
             LET e == p.pos + 3
                 n == ExpressionLength(p.tokens, e)
                 block == e + n + OneIf(p.tokens, e + n, "RIGHT_PAREN")
             IN  /\ StartedTest = ExpressionAt(p.tokens, e)
                 /\ p'.pos = block - 1 + OneIf(p.tokens, block, "LEFT_BRACE")]_vars

\* C19 witness: the closing brace after const a has been consumed as the
\* value of the declaration, which is absent
C19_Witness ==
    /\ phase = "parse"
    /\ Len(p.tokens) >= 3
    /\ p.tokens[1].Type = "CONST"
    /\ p.tokens[3].Type = "RIGHT_BRACE"
    /\ p.pos = 3
    /\ stack[1].body = << [type |-> "VariableDeclaration",
                           Kind |-> <<"c", "o", "n", "s", "t">>,
                           Name |-> p.tokens[2].Value,
                           Value |-> Nil] >>

\* each generated if statement next to the tree it stands for
IfExpected ==
    {<<IfText(c[1], c[2], c[3]),
       [type |-> "Program",
        Body |-> << [type |-> "IfStatement",
                     Test |-> ExpectedExpression(c[1], 1),
                     Consequent |-> ExpectedStatements(c[2])] >>] >> : c \in IfCases}

\* C20: if (A op B) { S1; ...; Sn; } parses to one IfStatement whose Test is
\* the BinaryExpression of A, op and B and whose Consequent holds the nodes
\* of S1..Sn in order; with the closing brace missing at top level the
\* Consequent holds the statements parsed up to EOF, which are the same.
C20_IfStatementShape ==
    (phase = "parsed" /\ l.input \in IfTexts) => <<l.input, program>> \in IfExpected

\* C20 witness: Parse has returned on an if with two statements in its block
\* and no closing brace
C20_Witness ==
    /\ phase = "parsed"
    /\ l.input \in IfTexts
    /\ Last(l.input) # "}"
    /\ Len(program.Body) = 1
    /\ program.Body[1].type = "IfStatement"
    /\ program.Body[1].Test.type = "BinaryExpression"
    /\ Len(program.Body[1].Consequent) = 2

\* the characters an identifier is made of
IdentifierChars ==
    {"a", "b", "c", "d", "e", "f", "g", "h", "i", "j", "k", "l", "m", "n", "o",
     "p", "q", "r", "s", "t", "u", "v", "w", "x", "y", "z",
     "A", "B", "C", "D", "E", "F", "G", "H", "I", "J", "K", "L", "M", "N", "O",
     "P", "Q", "R", "S", "T", "U", "V", "W", "X", "Y", "Z",
     "0", "1", "2", "3", "4", "5", "6", "7", "8", "9", "_"}

\* the first position from i on, counted from 1, whose character is not in
\* the set, or the position after the last character
RECURSIVE RunEnd(_, _, _)
RunEnd(s, i, set) ==
    IF i > Len(s) \/ s[i] \notin set THEN i ELSE RunEnd(s, i + 1, set)

\* the token type of a scanned word
ReservedType(word) ==
    CASE word = <<"f", "u", "n", "c", "t", "i", "o", "n">> -> "FUNCTION"
      [] word = <<"r", "e", "t", "u", "r", "n">> -> "RETURN"
      [] word = <<"c", "o", "n", "s", "t">> -> "CONST"
      [] word = <<"l", "e", "t">> -> "LET"
      [] word = <<"v", "a", "r">> -> "VAR"
      [] word = <<"i", "f">> -> "IF"
      [] OTHER -> "IDENTIFIER"

\* the main loop of Tokenize is at a character
AtChar == phase = "tokenize" /\ l.pos < Len(l.input)

\* C21: at a letter or underscore the lexer takes the longest run of
\* letters, digits and underscores as one token; the token has a keyword
\* type exactly when its text is one of function, return, const, let, var,
\* if in lower case, and is an IDENTIFIER otherwise (Function, iffy, let1).
C21_IdentifierOrKeyword ==
    [][(AtChar /\ l.input[l.pos + 1] \in IdentifierChars \ Digits) =>
          LET end == RunEnd(l.input, l.pos + 1, IdentifierChars)
              word == SubSeq(l.input, l.pos + 1, end - 1)
          IN  /\ l'.tokens = Append(l.tokens, [Type |-> ReservedType(word),
                                               Value |-> word])
              /\ l'.pos = end - 1]_vars

\* C21 witness: Tokenize has returned on Function(iffy with two IDENTIFIER
\* tokens
C21_Witness ==
    /\ phase = "tokenized"
    /\ calls = 1
    /\ Len(l.tokens) = 4
    /\ l.tokens[1] = [Type |-> "IDENTIFIER",
                      Value |-> <<"F", "u", "n", "c", "t", "i", "o", "n">>]
    /\ l.tokens[2].Type = "LEFT_PAREN"
    /\ l.tokens[3] = [Type |-> "IDENTIFIER", Value |-> <<"i", "f", "f", "y">>]

DigitChars == {"0", "1", "2", "3", "4", "5", "6", "7", "8", "9"}

\* digits, or digits '.' digits, with at least one digit in each run
IsNumeral(v) ==
    LET dot == RunEnd(v, 1, DigitChars)
    IN  /\ dot > 1
        /\ \/ dot = Len(v) + 1
           \/ /\ v[dot] = "."
              /\ dot < Len(v)
              /\ RunEnd(v, dot + 1, DigitChars) = Len(v) + 1

\* C22: the literal of every NUMBER token is a non-empty run of digits,
\* optionally followed by one '.' and at least one further digit: a '.' is
\* part of the token only when a digit follows it.
C22_NumberLiteralShape ==
    \A i \in 1..Len(l.tokens) :
        l.tokens[i].Type = "NUMBER" => IsNumeral(l.tokens[i].Value)

\* the first position from i on, counted from 1, that holds the character
\* c, or the position after the last character
RECURSIVE FirstChar(_, _, _)
FirstChar(s, i, c) ==
    IF i > Len(s) \/ s[i] = c THEN i ELSE FirstChar(s, i + 1, c)

\* C23: at a / that is directly followed by a second / the lexer emits one
\* COMMENT token that runs up to, not including, the next newline or to the
\* end of the input; at a / that is not followed by / it emits one DIVIDE
\* token; a string that closes is one STRING token up to its closing quote
\* whatever it contains, so a // inside it starts no comment.
C23_SlashIsCommentOrDivide ==
    [][/\ (AtChar /\ l.input[l.pos + 1] = "/") =>
             IF l.pos + 2 <= Len(l.input) /\ l.input[l.pos + 2] = "/"
             THEN LET newline == FirstChar(l.input, l.pos + 1, "\n")
                  IN  /\ l'.tokens =
                            Append(l.tokens,
                                   [Type |-> "COMMENT",
                                    Value |-> SubSeq(l.input, l.pos + 1, newline - 1)])
                      /\ l'.pos = newline - 1
             ELSE /\ l'.tokens = Append(l.tokens, [Type |-> "DIVIDE", Value |-> <<"/">>])
                  /\ l'.pos = l.pos + 1
       /\ (AtChar /\ l.input[l.pos + 1] \in {DQ, SQ}) =>
             LET close == FirstChar(l.input, l.pos + 2, l.input[l.pos + 1])
             IN  close <= Len(l.input) =>
                    /\ l'.tokens =
                          Append(l.tokens,
                                 [Type |-> "STRING",
                                  Value |-> SubSeq(l.input, l.pos + 1, close)])
                    /\ l'.pos = close]_vars

\* C23 witness: Tokenize has returned on the text "//" with one STRING token
C23_Witness ==
    /\ phase = "tokenized"
    /\ calls = 1
    /\ l.input = <<DQ, "/", "/", DQ>>
    /\ l.tokens = << [Type |-> "STRING", Value |-> <<DQ, "/", "/", DQ>>],
                     [Type |-> "EOF", Value |-> <<>>] >>

\* v opens with a quote, closes with the same quote and has no such quote
\* in between
IsQuoted(v) ==
    /\ Len(v) >= 2
    /\ v[1] \in {DQ, SQ}
    /\ v[Len(v)] = v[1]
    /\ \A k \in 2..(Len(v) - 1) : v[k] # v[1]

\* v is a piece of the text s
OccursIn(v, s) == \E a \in 1..Len(s) : SubSeq(s, a, a + Len(v) - 1) = v

\* C24: every STRING token Tokenize has produced has a literal of at least
\* two characters that is a piece of the input, opens and closes with the
\* same quote character and has no further occurrence of that quote inside:
\* it ends at the first later occurrence of its opening quote, and the other
\* quote character does not end it.
C24_StringLiteralQuoted ==
    \A i \in 1..Len(l.tokens) :
        l.tokens[i].Type = "STRING" =>
            /\ IsQuoted(l.tokens[i].Value)
            /\ OccursIn(l.tokens[i].Value, l.input)

\* C24 witness: Tokenize has returned a double-quoted STRING token that
\* holds a single quote
C24_Witness ==
    /\ phase = "tokenized"
    /\ calls = 1
    /\ Len(l.tokens) >= 2
    /\ l.tokens[2] = [Type |-> "STRING", Value |-> <<DQ, SQ, "a", DQ>>]

\* the characters a token can start with: letters, digits, underscore,
\* quotes and the punctuation characters
TokenStartChars ==
    IdentifierChars
    \cup {DQ, SQ, "(", ")", "{", "}", ";", ",", "=", ">", "<", "+", "-", "*", "/", "%"}

\* from position i of the text s on, the literals of the tokens from number
\* k on up to the EOF token lie one after the other, in order and without
\* overlap, and every character outside them is whitespace or starts no token
RECURSIVE Covers(_, _, _, _)
Covers(s, i, toks, k) ==
    IF i <= Len(s) /\ s[i] \notin TokenStartChars
    THEN Covers(s, i + 1, toks, k)
    ELSE IF k > Len(toks) \/ toks[k].Type = "EOF"
    THEN i > Len(s)
    ELSE /\ i <= Len(s)
         /\ toks[k].Value # <<>>
         /\ i + Len(toks[k].Value) - 1 <= Len(s)
         /\ SubSeq(s, i, i + Len(toks[k].Value) - 1) = toks[k].Value
         /\ Covers(s, i + Len(toks[k].Value), toks, k + 1)

\* C25: the literals of the tokens other than EOF are non-empty pieces of the
\* input that follow one another at increasing positions without overlap,
\* and each character of the scanned input outside them is a whitespace
\* character or a character that starts no token; this holds of the part of
\* the input scanned so far and of the whole input when Tokenize returns.
C25_TokensPartitionTheInput ==
    (phase \in {"tokenize", "tokenized"} /\ calls = 1) =>
        Covers(SubSeq(l.input, 1, l.pos), 1, l.tokens, 1)

\* C25 witness: Tokenize has returned two tokens and EOF on a text with an
\* unknown character between them
C25_Witness ==
    /\ phase = "tokenized"
    /\ calls = 1
    /\ Len(l.tokens) = 3
    /\ l.pos = Len(l.input)
    /\ \E i \in 1..Len(l.input) : l.input[i] = "."
    /\ Len(l.tokens[1].Value) + Len(l.tokens[2].Value) + 1 = Len(l.input)
    /\ l.tokens[1].Type = "IF"

\* C26: every iteration of the main loop of Tokenize moves the cursor
\* forward by at least one character and never back, and the cursor stays
\* within one position of the end of the input, which is not changed; when
\* the cursor has reached the end the loop is left and Tokenize returns.  So
\* the loop runs at most once per input character.
C26_TokenizeAlwaysAdvances ==
    [][/\ AtChar =>
             /\ l'.pos >= l.pos + 1
             /\ l'.pos <= Len(l.input) + 1
             /\ l'.input = l.input
       /\ (phase = "tokenize" /\ l.pos >= Len(l.input)) =>
             /\ phase' = "tokenized"
             /\ l'.pos = l.pos
             /\ l'.input = l.input]_vars

\* C26 witness: Tokenize has returned after scanning a text of twenty or
\* more characters into eight or more tokens
C26_Witness ==
    /\ phase = "tokenized"
    /\ calls = 1
    /\ l.pos = Len(l.input)
    /\ Len(l.input) >= 20
    /\ Len(l.tokens) >= 8

\* the nodes of a tree in depth-first order, parents before children, by
\* type; an absent Test, Left or Right counts as a visit of an absent node,
\* an absent Argument, Value or DefaultValue is not visited
RECURSIVE Preorder(_)
RECURSIVE PreorderAll(_)
RECURSIVE PreorderDefaults(_)
PreorderAll(nodes) ==
    IF nodes = <<>> THEN <<>> ELSE Preorder(Head(nodes)) \o PreorderAll(Tail(nodes))

PreorderDefaults(params) ==
    IF params = <<>> THEN <<>>
    ELSE (IF Head(params).DefaultValue = Nil THEN <<>>
          ELSE Preorder(Head(params).DefaultValue))
         \o PreorderDefaults(Tail(params))

Preorder(node) ==
    <<node.type>> \o
    (CASE node.type = "Program" -> PreorderAll(node.Body)
       [] node.type = "FunctionDeclaration" ->
             PreorderDefaults(node.Params) \o PreorderAll(node.Body)
       [] node.type = "IfStatement" ->
             Preorder(node.Test) \o PreorderAll(node.Consequent)
       [] node.type = "BinaryExpression" -> Preorder(node.Left) \o Preorder(node.Right)
       [] node.type = "ReturnStatement" ->
             IF node.Argument = Nil THEN <<>> ELSE Preorder(node.Argument)
       [] node.type = "VariableDeclaration" ->
             IF node.Value = Nil THEN <<>> ELSE Preorder(node.Value)
       [] OTHER -> <<>>)

\* the line PrintAST prints on entering a node of each type
HeadingFormat ==
    [Program |-> "Program:", FunctionDeclaration |-> "FunctionDeclaration: %s",
     IfStatement |-> "IfStatement:", BinaryExpression |-> "BinaryExpression: %s",
     ReturnStatement |-> "ReturnStatement:", Identifier |-> "Identifier: %s",
     StringLiteral |-> "StringLiteral: %s", NumericLiteral |-> "NumericLiteral: %s",
     VariableDeclaration |-> "VariableDeclaration: %s %s", Comment |-> "Comment: %s",
     nil |-> "Unknown node type"]

IsHeading(line) == \E t \in DOMAIN HeadingFormat : HeadingFormat[t] = line.format

\* the formats of the node lines among the printed lines, in order
Headings(lines) ==
    LET nodeLines == SelectSeq(lines, IsHeading)
    IN  [i \in 1..Len(nodeLines) |-> nodeLines[i].format]

\* C27: PrintAST completes on every tree Parse returns, also where the Test
\* of an if or an operand of a BinaryExpression is absent (it prints them as
\* an unknown node): the node lines it prints are those of the nodes of the
\* tree, each once, in depth-first order.
C27_PrintVisitsEveryNodeOnce ==
    \A i \in 1..Len(results) :
        results[i].program # Nil =>
            LET visited == Preorder(results[i].program)
            IN  Headings(results[i].printed) =
                   [k \in 1..Len(visited) |-> HeadingFormat[visited[k]]]

\* C27 witness: a tree with a BinaryExpression whose Right operand is absent
\* has been printed, the absent operand as an unknown node
C27_Witness ==
    /\ results # <<>>
    /\ results[1].program # Nil
    /\ Len(results[1].program.Body) = 1
    /\ results[1].program.Body[1].type = "ReturnStatement"
    /\ results[1].program.Body[1].Argument.type = "BinaryExpression"
    /\ results[1].program.Body[1].Argument.Right = Nil
    /\ results[1].printed[Len(results[1].printed)].format = "Unknown node type"

\* C28: if ( T ) { S1; ...; Sn; } with balanced parentheses and braces
\* parses to an IfStatement whose Consequent is exactly the nodes of S1..Sn,
\* whatever primaries and operators T is made of, a chain of three or more
\* operands included; inside a function body the } of the if closes the if
\* block, so the if with its Consequent is the one statement of the body.
C28_IfBlockAfterAnyTest ==
    phase = "parsed" =>
        \A c \in LongTestCases :
            /\ l.input = IfText(c[1], c[2], TRUE) =>
                  /\ Len(program.Body) = 1
                  /\ program.Body[1].type = "IfStatement"
                  /\ program.Body[1].Consequent = ExpectedStatements(c[2])
            /\ l.input = InFunction(IfText(c[1], c[2], TRUE)) =>
                  /\ Len(program.Body) = 1
                  /\ program.Body[1].type = "FunctionDeclaration"
                  /\ Len(program.Body[1].Body) = 1
                  /\ program.Body[1].Body[1].type = "IfStatement"
                  /\ program.Body[1].Body[1].Consequent = ExpectedStatements(c[2])

\* no entry of the statement list is absent, nor is one in the statement
\* lists of its entries
RECURSIVE NoAbsentStatement(_)
NoAbsentStatement(nodes) ==
    \A i \in 1..Len(nodes) :
        /\ nodes[i] # Nil
        /\ nodes[i].type \in {"FunctionDeclaration", "IfStatement", "ReturnStatement",
                              "VariableDeclaration", "Comment"}
        /\ nodes[i].type = "FunctionDeclaration" => NoAbsentStatement(nodes[i].Body)
        /\ nodes[i].type = "IfStatement" => NoAbsentStatement(nodes[i].Consequent)

\* C29: the statement lists of the tree (Program.Body, FunctionDeclaration
\* .Body, IfStatement.Consequent) hold no absent entry, while Parse builds
\* them and when it returns: every entry is a statement node; absent nodes
\* are found in the optional child positions only.
C29_NoAbsentStatement ==
    /\ phase = "parse" => \A k \in 1..Len(stack) : NoAbsentStatement(stack[k].body)
    /\ phase = "parsed" => NoAbsentStatement(program.Body)

\* C29 witness: Parse has returned an if without Test whose block holds a
\* return without Argument, after skipping tokens that start no statement
C29_Witness ==
    /\ phase = "parsed"
    /\ Len(p.tokens) = 4
    /\ p.tokens[1].Type = "SEMICOLON"
    /\ program.Body = << [type |-> "IfStatement",
                          Test |-> Nil,
                          Consequent |-> << [type |-> "ReturnStatement",
                                             Argument |-> Nil] >>] >>

\* C30: a second call of Tokenize on the same Lexer returns what the first
\* call returned: the tokens of the input, in order, ended by exactly one EOF
\* token.
C30_SecondTokenizeSameResult ==
    (phase = "tokenized" /\ calls = 2) =>
        /\ Covers(l.input, 1, l.tokens, 1)
        /\ Cardinality({i \in 1..Len(l.tokens) : l.tokens[i].Type = "EOF"}) = 1
        /\ Last(l.tokens).Type = "EOF"

============================================================================
